---- MODULE Spec2Model ----
(***************************************************************************)
(* A model of the binary-array decoder of FAA_Dashboard_Cleaned.py:        *)
(* decode_bdata (base64 text + dtype tag -> list of numbers) and           *)
(* convert_to_serializable (the recursive walk over a figure dictionary).  *)
(*                                                                         *)
(* Python values are records tagged by the field t:                        *)
(*   [t |-> "int", v |-> n]            a plain int below 2^31              *)
(*   [t |-> "int", hi |-> h, lo |-> l] a plain int h*2^16 + l >= 2^31      *)
(*                                     (held as 16-bit halves: the model   *)
(*                                     checker's integers are 32-bit)      *)
(*   [t |-> "float", bits, sign, exp, frac]  a plain float, held as the    *)
(*                                     IEEE-754 fields of the format it    *)
(*                                     was read from (frac in limbs)       *)
(*   [t |-> "str", v |-> <<chars>>]    a str, as its sequence of chars     *)
(*   [t |-> "bool"], [t |-> "None"]    a plain bool, None                  *)
(*   [t |-> "list", v |-> <<...>>]     a list                              *)
(*   [t |-> "dict", v |-> <<k, x>>...] a dict, as its items in order       *)
(*   [t |-> "np.int64" | "np.float64" | "np.bool_" | "ndarray", ...]       *)
(*                                     numpy scalars and arrays            *)
(*   [t |-> "NA"]                      pandas' missing-value marker        *)
(*   [t |-> "raise", exc |-> name]     the call raised exc                 *)
(***************************************************************************)
EXTENDS Integers, Sequences, FiniteSets, TLC

VARIABLES
    bdata,   \* decode_bdata's first argument: the payload text (a sequence of chars)
    dtype,   \* decode_bdata's second argument: the element-kind tag
    src,     \* how the payload was produced (typed by hand, encoded bytes, packed values)
    ret,     \* what decode_bdata returned or raised
    pc,      \* "input" before the call, "done" after it;
             \* "build", "converted", "again" in the walk over a tree
    obj,     \* convert_to_serializable's argument: the tree handed to it
    out,     \* what convert_to_serializable(obj) returned or raised
    out2,    \* what convert_to_serializable(out) returned or raised
    rng,           \* the pseudo-random stream numpy yields after seed(42)
    num_days,      \* the "Historical Data Range (Days)" slider, or the n of a direct call
    date_range,    \* the "Analysis Period (Days)" slider
    df,            \* the table generate_sample_data returned: a sequence of rows
    df_filtered,   \* main's df.tail(date_range)
    kpis,          \* what calculate_kpis returned
    latest_data,   \* calculate_kpis' window of recent rows
    previous_data, \* calculate_kpis' window of earlier rows
    warned         \* main showed "No data available for the selected date range."

\* the state of the dashboard (faa_dashboard.py)
dashvars == <<rng, num_days, date_range, df, df_filtered, kpis,
              latest_data, previous_data, warned>>
\* the state of the decoder and of the walk (FAA_Dashboard_Cleaned.py)
cleanvars == <<bdata, dtype, src, ret, obj, out, out2>>

vars == <<bdata, dtype, src, ret, pc, obj, out, out2, rng, num_days, date_range,
          df, df_filtered, kpis, latest_data, previous_data, warned>>

\* the dashboard before anything ran
DashIdle ==
    /\ num_days = 0
    /\ date_range = 0
    /\ df = [t |-> "unset"]
    /\ df_filtered = [t |-> "unset"]
    /\ kpis = [t |-> "unset"]
    /\ latest_data = [t |-> "unset"]
    /\ previous_data = [t |-> "unset"]
    /\ warned = FALSE

(* ---- bounds ---------------------------------------------------------- *)
\* longest byte string handed to the base64 encoder
MaxBytes == 8
\* longest hand-typed payload text
MaxChars == 5
\* longest sequence of numbers packed by the producer
MaxVals == 2
\* most nodes (dicts, lists and scalars) in a tree
MaxNodes == 5

(* ---- Python values --------------------------------------------------- *)
PyInt(n) == [t |-> "int", v |-> n]
PyBig(h, l) == [t |-> "int", hi |-> h, lo |-> l]
PyFloat(b, s, e, f) == [t |-> "float", bits |-> b, sign |-> s, exp |-> e, frac |-> f]
PyStr(s) == [t |-> "str", v |-> s]
PyList(s) == [t |-> "list", v |-> s]
PyDict(items) == [t |-> "dict", v |-> items]
PyBool(b) == [t |-> "bool", v |-> b]
PyNone == [t |-> "None"]
NpInt(n) == [t |-> "np.int64", v |-> n]
NpFloat(s, e, f) == [t |-> "np.float64", sign |-> s, exp |-> e, frac |-> f]
NpBool(b) == [t |-> "np.bool_", v |-> b]
NdArray(s) == [t |-> "ndarray", v |-> s]
PdNA == [t |-> "NA"]
Raise(e) == [t |-> "raise", exc |-> e]
NoValue == [t |-> "unset"]

IsRaise(x) == x.t = "raise"

(* ---- base64.b64decode(bdata), validate=False ------------------------- *)
B64Alphabet ==
    << "A","B","C","D","E","F","G","H","I","J","K","L","M","N","O","P",
       "Q","R","S","T","U","V","W","X","Y","Z","a","b","c","d","e","f",
       "g","h","i","j","k","l","m","n","o","p","q","r","s","t","u","v",
       "w","x","y","z","0","1","2","3","4","5","6","7","8","9","+","/" >>

B64Chars == { B64Alphabet[i] : i \in 1..Len(B64Alphabet) }

\* the 6-bit value of an alphabet character (binascii's table_a2b_base64)
B64Value(c) == (CHOOSE i \in 1..Len(B64Alphabet) : B64Alphabet[i] = c) - 1

(* binascii.a2b_base64 in its default, non-strict mode: a character outside
   the alphabet is skipped; "=" ends the input once a quad holding at least
   two characters is padded to four; anything left in an unfinished quad at
   the end of the input is an error. *)
RECURSIVE a2b_base64(_, _, _, _, _, _)
a2b_base64(s, i, quad_pos, leftchar, pads, bin_data) ==
    IF i > Len(s)
    THEN IF quad_pos # 0 THEN Raise("binascii.Error") ELSE [t |-> "bytes", v |-> bin_data]
    ELSE IF s[i] = "="
    THEN IF quad_pos >= 2 /\ quad_pos + pads + 1 >= 4
         THEN [t |-> "bytes", v |-> bin_data]
         ELSE a2b_base64(s, i + 1, quad_pos, leftchar,
                         IF quad_pos >= 2 THEN pads + 1 ELSE pads, bin_data)
    ELSE IF s[i] \notin B64Chars
    THEN a2b_base64(s, i + 1, quad_pos, leftchar, pads, bin_data)
    ELSE LET c == B64Value(s[i]) IN
         CASE quad_pos = 0 -> a2b_base64(s, i + 1, 1, c, 0, bin_data)
           [] quad_pos = 1 ->
                a2b_base64(s, i + 1, 2, c % 16, 0, Append(bin_data, leftchar * 4 + c \div 16))
           [] quad_pos = 2 ->
                a2b_base64(s, i + 1, 3, c % 4, 0, Append(bin_data, leftchar * 16 + c \div 4))
           [] quad_pos = 3 ->
                a2b_base64(s, i + 1, 0, 0, 0, Append(bin_data, leftchar * 64 + c))

\* b64decode takes a str (or bytes); anything else is a TypeError
b64decode(s) ==
    IF s.t # "str" THEN Raise("TypeError") ELSE a2b_base64(s.v, 1, 0, 0, 0, <<>>)

(* ---- struct ---------------------------------------------------------- *)
\* faulty variant: the table's 'i2' entry holds the unsigned code 'H'
dtype_map_get_typo(tag) ==
    CASE tag = PyStr(<<"i", "1">>) -> "b"
      [] tag = PyStr(<<"u", "1">>) -> "B"
      [] tag = PyStr(<<"i", "2">>) -> "H"
      [] tag = PyStr(<<"u", "2">>) -> "H"
      [] tag = PyStr(<<"i", "4">>) -> "i"
      [] tag = PyStr(<<"u", "4">>) -> "I"
      [] tag = PyStr(<<"f", "4">>) -> "f"
      [] tag = PyStr(<<"f", "8">>) -> "d"
      [] OTHER -> "f8"

\* dtype_map.get(dtype, 'f8'): the struct format of a tag, 'f8' for any other tag
dtype_map_get(tag) ==
    CASE tag = PyStr(<<"i", "1">>) -> "b"
      [] tag = PyStr(<<"u", "1">>) -> "B"
      [] tag = PyStr(<<"i", "2">>) -> "h"
      [] tag = PyStr(<<"u", "2">>) -> "H"
      [] tag = PyStr(<<"i", "4">>) -> "i"
      [] tag = PyStr(<<"u", "4">>) -> "I"
      [] tag = PyStr(<<"f", "4">>) -> "f"
      [] tag = PyStr(<<"f", "8">>) -> "d"
      [] OTHER -> "f8"

\* struct.calcsize(fmt); 0 stands for struct.error ('f8' is a format code
\* followed by a repeat count with no code after it)
calcsize(fmt) ==
    CASE fmt \in {"b", "B"} -> 1
      [] fmt \in {"h", "H"} -> 2
      [] fmt \in {"i", "I", "f"} -> 4
      [] fmt = "d" -> 8
      [] OTHER -> 0

\* one little-endian value of format fmt read from the bytes bs
unpack_one(fmt, bs) ==
    CASE fmt = "B" -> PyInt(bs[1])
      [] fmt = "b" -> PyInt(IF bs[1] >= 128 THEN bs[1] - 256 ELSE bs[1])
      [] fmt = "H" -> PyInt(bs[1] + 256 * bs[2])
      [] fmt = "h" -> LET u == bs[1] + 256 * bs[2]
                      IN  PyInt(IF u >= 32768 THEN u - 65536 ELSE u)
      [] fmt = "I" -> LET lo == bs[1] + 256 * bs[2]
                          hi == bs[3] + 256 * bs[4]
                      IN  IF hi < 32768 THEN PyInt(hi * 65536 + lo) ELSE PyBig(hi, lo)
      [] fmt = "i" -> LET lo == bs[1] + 256 * bs[2]
                          hi == bs[3] + 256 * bs[4]
                      IN  IF hi < 32768 THEN PyInt(hi * 65536 + lo)
                          ELSE PyInt((hi - 65536) * 65536 + lo)
      [] fmt = "f" -> PyFloat(32, bs[4] \div 128,
                              (bs[4] % 128) * 2 + bs[3] \div 128,
                              << (bs[3] % 128) * 65536 + bs[2] * 256 + bs[1] >>)
      [] fmt = "d" -> PyFloat(64, bs[8] \div 128,
                              (bs[8] % 128) * 16 + bs[7] \div 16,
                              << bs[7] % 16,
                                 bs[6] * 65536 + bs[5] * 256 + bs[4],
                                 bs[3] * 65536 + bs[2] * 256 + bs[1] >>)

Reverse(bs) == [j \in 1..Len(bs) |-> bs[Len(bs) + 1 - j]]

\* faulty variant: struct.unpack('>' + fmt * count, raw_bytes), big-endian
unpack_big_endian(fmt, size, count, raw_bytes) ==
    IF Len(raw_bytes) # count * size
    THEN Raise("struct.error")
    ELSE PyList([k \in 1..count |->
                    unpack_one(fmt, Reverse(SubSeq(raw_bytes, (k - 1) * size + 1, k * size)))])

\* struct.unpack('<' + fmt * count, raw_bytes): the buffer must hold exactly
\* count * size bytes
unpack(fmt, size, count, raw_bytes) ==
    IF Len(raw_bytes) # count * size
    THEN Raise("struct.error")
    ELSE PyList([k \in 1..count |->
                    unpack_one(fmt, SubSeq(raw_bytes, (k - 1) * size + 1, k * size))])

(* ---- decode_bdata ---------------------------------------------------- *)
\* a dict key must be hashable: dtype_map.get raises TypeError for a list,
\* a dict or an array
Unhashable(x) == x.t \in {"list", "dict", "ndarray"}

decode_bdata(b, d) ==
    LET raw_bytes == b64decode(b) IN
    IF IsRaise(raw_bytes) THEN raw_bytes
    ELSE IF Unhashable(d) THEN Raise("TypeError")
    ELSE LET fmt == dtype_map_get(d)
             size == calcsize(fmt)
         IN  IF size = 0 THEN Raise("struct.error")
             ELSE unpack(fmt, size, Len(raw_bytes.v) \div size, raw_bytes.v)

(* ---- convert_to_serializable ----------------------------------------- *)
HasKey(o, k) == \E i \in 1..Len(o.v) : o.v[i][1] = k
\* obj[k]
GetItem(o, k) == o.v[CHOOSE i \in 1..Len(o.v) : o.v[i][1] = k][2]

\* faulty variant: a buffer only when bdata and dtype are the only keys
is_bdata_exact(o) == Len(o.v) = 2 /\ HasKey(o, "bdata") /\ HasKey(o, "dtype")

\* 'bdata' in obj and 'dtype' in obj
is_bdata(o) == HasKey(o, "bdata") /\ HasKey(o, "dtype")

\* pd.isna of a scalar: None, NaN and pandas' NA
IsNaN(x) ==
    /\ x.t \in {"float", "np.float64"}
    /\ LET bits == IF x.t = "float" THEN x.bits ELSE 64 IN
       /\ x.exp = (IF bits = 32 THEN 255 ELSE 2047)
       /\ \E i \in 1..Len(x.frac) : x.frac[i] # 0
isna(x) == x.t \in {"None", "NA"} \/ IsNaN(x)

\* faulty variant: the np.bool_ branch is missing
convert_scalar_no_bool(o) ==
    IF o.t = "ndarray"
    THEN PyList([i \in 1..Len(o.v) |->
            CASE o.v[i].t = "np.int64" -> PyInt(o.v[i].v)
              [] o.v[i].t = "np.float64" ->
                    PyFloat(64, o.v[i].sign, o.v[i].exp, o.v[i].frac)
              [] o.v[i].t = "np.bool_" -> PyBool(o.v[i].v)])
    ELSE IF o.t = "np.int64" THEN PyInt(o.v)
    ELSE IF o.t = "np.float64" THEN PyFloat(64, o.sign, o.exp, o.frac)
    ELSE IF isna(o) THEN PyNone
    ELSE o

\* faulty variant: np.isnan in place of pd.isna, a TypeError for None, NA and str
convert_scalar_np_isnan(o) ==
    IF o.t = "ndarray"
    THEN PyList([i \in 1..Len(o.v) |->
            CASE o.v[i].t = "np.int64" -> PyInt(o.v[i].v)
              [] o.v[i].t = "np.float64" ->
                    PyFloat(64, o.v[i].sign, o.v[i].exp, o.v[i].frac)
              [] o.v[i].t = "np.bool_" -> PyBool(o.v[i].v)])
    ELSE IF o.t = "np.int64" THEN PyInt(o.v)
    ELSE IF o.t = "np.float64" THEN PyFloat(64, o.sign, o.exp, o.frac)
    ELSE IF o.t = "np.bool_" THEN PyBool(o.v)
    ELSE IF o.t \in {"None", "NA", "str"} THEN Raise("TypeError")
    ELSE IF IsNaN(o) THEN PyNone
    ELSE o

\* the branches for what is neither a dict nor a list
convert_scalar(o) ==
    IF o.t = "ndarray"
    THEN PyList([i \in 1..Len(o.v) |->
            CASE o.v[i].t = "np.int64" -> PyInt(o.v[i].v)
              [] o.v[i].t = "np.float64" ->
                    PyFloat(64, o.v[i].sign, o.v[i].exp, o.v[i].frac)
              [] o.v[i].t = "np.bool_" -> PyBool(o.v[i].v)])
    ELSE IF o.t = "np.int64" THEN PyInt(o.v)
    ELSE IF o.t = "np.float64" THEN PyFloat(64, o.sign, o.exp, o.frac)
    ELSE IF o.t = "np.bool_" THEN PyBool(o.v)
    ELSE IF isna(o) THEN PyNone
    ELSE o

\* a comprehension stops at the first item whose conversion raises
FirstRaise(xs) == xs[CHOOSE i \in 1..Len(xs) :
                        IsRaise(xs[i]) /\ \A j \in 1..(i - 1) : ~IsRaise(xs[j])]

\* faulty variant: [<converted v> for v in obj.values()], the keys lost
dict_values_only(o, vals) == PyList(vals)

\* {k: <converted v> for k, v in obj.items()}
dict_comprehension(o, vals) ==
    PyDict([i \in 1..Len(o.v) |-> <<o.v[i][1], vals[i]>>])

\* [<converted item> for item in obj]
list_comprehension(o, vals) == PyList(vals)

RECURSIVE convert_to_serializable(_)
convert_to_serializable(o) ==
    IF o.t = "dict"
    THEN IF is_bdata(o)
         THEN decode_bdata(GetItem(o, "bdata"), GetItem(o, "dtype"))
         ELSE LET vals == [i \in 1..Len(o.v) |-> convert_to_serializable(o.v[i][2])]
              IN  IF \E i \in 1..Len(vals) : IsRaise(vals[i])
                  THEN FirstRaise(vals)
                  ELSE dict_comprehension(o, vals)
    ELSE IF o.t = "list"
    THEN LET vals == [i \in 1..Len(o.v) |-> convert_to_serializable(o.v[i])]
         IN  IF \E i \in 1..Len(vals) : IsRaise(vals[i])
             THEN FirstRaise(vals)
             ELSE list_comprehension(o, vals)
    ELSE convert_scalar(o)

(* ---- the producer: packing and base64-encoding ----------------------- *)
\* the byte width the producing library packs each tag at
Width(tag) ==
    CASE tag \in {PyStr(<<"i", "1">>), PyStr(<<"u", "1">>)} -> 1
      [] tag \in {PyStr(<<"i", "2">>), PyStr(<<"u", "2">>)} -> 2
      [] tag \in {PyStr(<<"i", "4">>), PyStr(<<"u", "4">>), PyStr(<<"f", "4">>)} -> 4
      [] tag = PyStr(<<"f", "8">>) -> 8

IntTags == { PyStr(<<"i", "1">>), PyStr(<<"u", "1">>), PyStr(<<"i", "2">>),
             PyStr(<<"u", "2">>), PyStr(<<"i", "4">>), PyStr(<<"u", "4">>) }
SignedTags == { PyStr(<<"i", "1">>), PyStr(<<"i", "2">>), PyStr(<<"i", "4">>) }
FloatTags == { PyStr(<<"f", "4">>), PyStr(<<"f", "8">>) }
KnownTags == IntTags \cup FloatTags
\* tags the decoder does not recognise
OtherTags == { PyStr(<<"z", "z">>), PyStr(<<"d">>) }
Tags == KnownTags \cup OtherTags

Pow256(j) == CASE j = 0 -> 1 [] j = 1 -> 256 [] j = 2 -> 65536 [] j = 3 -> 16777216

\* byte j (0 = least significant) of the two's-complement form of the int x
ByteOf(x, j) ==
    IF "hi" \in DOMAIN x
    THEN CASE j = 0 -> x.lo % 256
           [] j = 1 -> x.lo \div 256
           [] j = 2 -> x.hi % 256
           [] j = 3 -> x.hi \div 256
    ELSE (x.v \div Pow256(j)) % 256

\* the little-endian bytes of one value at a tag's width
pack_one(tag, x) ==
    IF tag \in IntTags
    THEN [j \in 1..Width(tag) |-> ByteOf(x, j - 1)]
    ELSE IF tag = PyStr(<<"f", "4">>)
    THEN << x.frac[1] % 256,
            (x.frac[1] \div 256) % 256,
            (x.exp % 2) * 128 + x.frac[1] \div 65536,
            x.sign * 128 + x.exp \div 2 >>
    ELSE << x.frac[3] % 256, (x.frac[3] \div 256) % 256, x.frac[3] \div 65536,
            x.frac[2] % 256, (x.frac[2] \div 256) % 256, x.frac[2] \div 65536,
            (x.exp % 16) * 16 + x.frac[1],
            x.sign * 128 + x.exp \div 16 >>

RECURSIVE pack(_, _)
pack(tag, xs) ==
    IF xs = <<>> THEN <<>> ELSE pack_one(tag, Head(xs)) \o pack(tag, Tail(xs))

B64Char(v) == B64Alphabet[v + 1]

\* base64.b64encode: three bytes to four characters, "=" padding at the end
RECURSIVE b64encode(_)
b64encode(bs) ==
    IF Len(bs) = 0 THEN <<>>
    ELSE IF Len(bs) = 1
    THEN << B64Char(bs[1] \div 4), B64Char((bs[1] % 4) * 16), "=", "=" >>
    ELSE IF Len(bs) = 2
    THEN << B64Char(bs[1] \div 4), B64Char((bs[1] % 4) * 16 + bs[2] \div 16),
            B64Char((bs[2] % 16) * 4), "=" >>
    ELSE << B64Char(bs[1] \div 4), B64Char((bs[1] % 4) * 16 + bs[2] \div 16),
            B64Char((bs[2] % 16) * 4 + bs[3] \div 64), B64Char(bs[3] % 64) >>
         \o b64encode(SubSeq(bs, 4, Len(bs)))

(* ---- inputs ---------------------------------------------------------- *)
\* byte values the encoded buffers are drawn from
ByteVals == {0, 1, 255}
ByteSeqs == UNION { [1..n -> ByteVals] : n \in 0..MaxBytes }

\* characters a hand-typed payload is drawn from: two alphabet characters,
\* the pad character and one character outside the alphabet
TypedChars == {"A", "Q", "=", "!"}

\* numbers representable in each kind (NaN is not a number: the floats are
\* 0.0, 1.0, -2.5, the largest finite value, the smallest subnormal, +inf)
Representable(tag) ==
    CASE tag = PyStr(<<"i", "1">>) -> { PyInt(n) : n \in {-128, -1, 0, 1, 2, 127} }
      [] tag = PyStr(<<"u", "1">>) -> { PyInt(n) : n \in {0, 1, 2, 128, 255} }
      [] tag = PyStr(<<"i", "2">>) -> { PyInt(n) : n \in {-32768, -1, 0, 1, 2, 258, 32767} }
      [] tag = PyStr(<<"u", "2">>) -> { PyInt(n) : n \in {0, 1, 2, 258, 32768, 65535} }
      [] tag = PyStr(<<"i", "4">>) ->
            { PyInt(n) : n \in {-2147483647 - 1, -1, 0, 1, 2, 16909060, 2147483647} }
      [] tag = PyStr(<<"u", "4">>) ->
            { PyInt(n) : n \in {0, 1, 2, 16909060, 2147483647} }
                \cup { PyBig(32768, 0), PyBig(65535, 65535) }
      [] tag = PyStr(<<"f", "4">>) ->
            { PyFloat(32, 0, 0, <<0>>), PyFloat(32, 0, 127, <<0>>),
              PyFloat(32, 1, 128, <<2097152>>), PyFloat(32, 0, 254, <<8388607>>),
              PyFloat(32, 0, 0, <<1>>), PyFloat(32, 0, 255, <<0>>) }
      [] tag = PyStr(<<"f", "8">>) ->
            { PyFloat(64, 0, 0, <<0, 0, 0>>), PyFloat(64, 0, 1023, <<0, 0, 0>>),
              PyFloat(64, 1, 1024, <<4, 0, 0>>), PyFloat(64, 0, 2046, <<15, 16777215, 16777215>>),
              PyFloat(64, 0, 0, <<0, 0, 1>>), PyFloat(64, 0, 2047, <<0, 0, 0>>) }

ValueSeqs(tag) == UNION { [1..n -> Representable(tag)] : n \in 0..MaxVals }

(* ---- the decoder as a state machine ---------------------------------- *)
Init ==
    /\ bdata = PyStr(<<>>)
    /\ dtype = NoValue
    /\ src = [how |-> "typed"]
    /\ ret = NoValue
    /\ pc = "input"
    /\ obj = NoValue
    /\ out = NoValue
    /\ out2 = NoValue
    /\ rng = <<>>
    /\ DashIdle

\* one more character of a hand-written payload
TypeChar ==
    /\ pc = "input"
    /\ src.how = "typed"
    /\ Len(bdata.v) < MaxChars
    /\ \E c \in TypedChars : bdata' = PyStr(Append(bdata.v, c))
    /\ UNCHANGED <<dtype, src, ret, pc, obj, out, out2>>
    /\ UNCHANGED dashvars

\* the producer base64-encodes a byte string
EncodeBytes ==
    /\ pc = "input"
    /\ src.how = "typed"
    /\ bdata.v = <<>>
    /\ \E bs \in ByteSeqs :
          /\ bdata' = PyStr(b64encode(bs))
          /\ src' = [how |-> "bytes", bytes |-> bs]
    /\ UNCHANGED <<dtype, ret, pc, obj, out, out2>>
    /\ UNCHANGED dashvars

\* the producer packs a sequence of numbers of one kind and encodes it
PackValues ==
    /\ pc = "input"
    /\ src.how = "typed"
    /\ bdata.v = <<>>
    /\ \E tag \in KnownTags : \E xs \in ValueSeqs(tag) :
          /\ bdata' = PyStr(b64encode(pack(tag, xs)))
          /\ src' = [how |-> "packed", bytes |-> pack(tag, xs),
                     kind |-> tag, values |-> xs]
    /\ UNCHANGED <<dtype, ret, pc, obj, out, out2>>
    /\ UNCHANGED dashvars

\* decode_bdata(bdata, tag)
Call ==
    /\ pc = "input"
    /\ \E tag \in Tags :
          /\ dtype' = tag
          /\ ret' = decode_bdata(bdata, tag)
    /\ pc' = "done"
    /\ UNCHANGED <<bdata, src, obj, out, out2>>
    /\ UNCHANGED dashvars

Next ==
    \/ TypeChar
    \/ EncodeBytes
    \/ PackValues
    \/ Call

Spec == Init /\ [][Next]_vars

(* ---- the walk as a state machine ------------------------------------- *)
NaN64 == <<8, 0, 0>>
\* payload texts: one byte 01; four bytes FF (a 32-bit NaN); not base64
Payloads == { PyStr(<<"A", "Q", "=", "=">>),
              PyStr(<<"/", "/", "/", "/", "/", "w", "=", "=">>),
              PyStr(<<"A">>) }
\* what a figure holds under "bdata": a payload text, or something else
BdataLeaves == Payloads \cup { PyInt(1) }
\* what a figure holds under "dtype": a tag, known or not, or something else
DtypeLeaves == { PyStr(<<"i", "1">>), PyStr(<<"f", "4">>), PyStr(<<"z", "z">>), PyNone }
\* scalars anywhere else: plain values, numpy wrappers, missing values
Scalars == { PyInt(1), PyNone, PyFloat(64, 0, 2047, NaN64),
             NpInt(7), NpFloat(0, 2047, NaN64), NpBool(TRUE), PdNA,
             NdArray(<<NpFloat(0, 2047, NaN64), NpFloat(0, 1023, <<0, 0, 0>>)>>) }
Keys == {"bdata", "dtype", "x"}
LeavesFor(k) ==
    CASE k = "bdata" -> BdataLeaves
      [] k = "dtype" -> DtypeLeaves
      [] OTHER -> Scalars

IsContainer(o) == o.t \in {"dict", "list"}
Children(o) ==
    IF o.t = "dict" THEN [i \in 1..Len(o.v) |-> o.v[i][2]]
    ELSE IF o.t = "list" THEN o.v
    ELSE <<>>

RECURSIVE Nodes(_)
RECURSIVE SumNodes(_)
SumNodes(c) == IF c = <<>> THEN 0 ELSE Nodes(Head(c)) + SumNodes(Tail(c))
\* the number of nodes of a tree
Nodes(o) == 1 + SumNodes(Children(o))

InitWalk ==
    /\ bdata = PyStr(<<>>)
    /\ dtype = NoValue
    /\ src = [how |-> "typed"]
    /\ ret = NoValue
    /\ pc = "build"
    /\ obj \in Scalars \cup BdataLeaves \cup DtypeLeaves
    /\ out = NoValue
    /\ out2 = NoValue
    /\ rng = <<>>
    /\ DashIdle

\* the tree so far becomes the only item of a list
WrapList ==
    /\ pc = "build"
    /\ Nodes(obj) < MaxNodes
    /\ obj' = PyList(<<obj>>)
    /\ UNCHANGED <<bdata, dtype, src, ret, pc, out, out2>>
    /\ UNCHANGED dashvars

\* the tree so far becomes the only value of a dict
WrapDict ==
    /\ pc = "build"
    /\ Nodes(obj) < MaxNodes
    /\ \E k \in Keys :
          /\ IsContainer(obj) \/ obj \in LeavesFor(k)
          /\ obj' = PyDict(<< <<k, obj>> >>)
    /\ UNCHANGED <<bdata, dtype, src, ret, pc, out, out2>>
    /\ UNCHANGED dashvars

\* one more scalar at the end of the list
AppendItem ==
    /\ pc = "build"
    /\ obj.t = "list"
    /\ Nodes(obj) < MaxNodes
    /\ \E x \in Scalars : obj' = PyList(Append(obj.v, x))
    /\ UNCHANGED <<bdata, dtype, src, ret, pc, out, out2>>
    /\ UNCHANGED dashvars

\* one more key of the dict
AddKey ==
    /\ pc = "build"
    /\ obj.t = "dict"
    /\ Nodes(obj) < MaxNodes
    /\ \E k \in Keys : \E x \in LeavesFor(k) :
          /\ ~HasKey(obj, k)
          /\ obj' = PyDict(Append(obj.v, <<k, x>>))
    /\ UNCHANGED <<bdata, dtype, src, ret, pc, out, out2>>
    /\ UNCHANGED dashvars

\* clean_dict = convert_to_serializable(fig_dict)
Convert ==
    /\ pc = "build"
    /\ out' = convert_to_serializable(obj)
    /\ pc' = "converted"
    /\ UNCHANGED <<bdata, dtype, src, ret, obj, out2>>
    /\ UNCHANGED dashvars

\* convert_to_serializable applied to its own result
ConvertAgain ==
    /\ pc = "converted"
    /\ ~IsRaise(out)
    /\ out2' = convert_to_serializable(out)
    /\ pc' = "again"
    /\ UNCHANGED <<bdata, dtype, src, ret, obj, out>>
    /\ UNCHANGED dashvars

NextWalk ==
    \/ WrapList
    \/ WrapDict
    \/ AppendItem
    \/ AddKey
    \/ Convert
    \/ ConvertAgain

SpecWalk == InitWalk /\ [][NextWalk]_vars

(* ====================================================================== *)
(* Claims about decode_bdata                                              *)
(* ====================================================================== *)

\* the payload is the producer's base64 encoding of a byte string
Encoded == src.how \in {"bytes", "packed"}

\* the bytes [k*w, (k+1)*w) of the encoded byte string, k counted from 1
Slice(k, w) == SubSeq(src.bytes, (k - 1) * w + 1, k * w)

(* C1: for every payload and every tag that is not recognised, decode_bdata
   does not fail: it reads the bytes as 64-bit floats and returns
   floor(L/8) elements (none for a 4-byte payload). *)
C1_UnknownTagReadsFloat64 ==
    (pc = "done" /\ Encoded /\ dtype \in OtherTags) =>
        /\ ret.t = "list"
        /\ Len(ret.v) = Len(src.bytes) \div 8
        /\ \A k \in 1..Len(ret.v) : ret.v[k] = unpack_one("d", Slice(k, 8))

(* C2: for every valid payload of L bytes and every tag of width w, also
   when L is not a multiple of w, decode_bdata returns floor(L/w) elements;
   the trailing L mod w bytes are dropped silently. *)
C2_TrailingBytesDropped ==
    (pc = "done" /\ Encoded /\ dtype \in KnownTags) =>
        /\ ret.t = "list"
        /\ Len(ret.v) = Len(src.bytes) \div Width(dtype)

\* x is the reading of the bytes bs under tag: the bytes are the base-256
\* digits of x, least significant first, and x lies in the tag's range
IsReading(tag, x, bs) ==
    LET w == Width(tag) IN
    IF tag \in IntTags
    THEN /\ x.t = "int"
         /\ \A j \in 0..(w - 1) : ByteOf(x, j) = bs[j + 1]
         /\ IF "hi" \in DOMAIN x
            THEN tag \notin SignedTags /\ w = 4 /\ x.hi \in 32768..65535 /\ x.lo \in 0..65535
            ELSE IF tag \in SignedTags
            THEN w = 4 \/ (-(Pow256(w) \div 2) <= x.v /\ x.v < Pow256(w) \div 2)
            ELSE x.v >= 0 /\ (w = 4 \/ x.v < Pow256(w))
    ELSE /\ x.t = "float"
         /\ x.bits = 8 * w
         /\ x.sign \in {0, 1}
         /\ x.exp \in 0..(IF w = 4 THEN 255 ELSE 2047)
         /\ Len(x.frac) = (IF w = 4 THEN 1 ELSE 3)
         /\ pack_one(tag, x) = bs

(* C3: for every recognised tag and every payload whose length is a
   multiple of the tag's width w, decode_bdata returns L/w values, the k-th
   being the little-endian reading of bytes [k*w, (k+1)*w) with the tag's
   signedness, in buffer order. *)
C3_LittleEndianReading ==
    (pc = "done" /\ Encoded /\ dtype \in KnownTags
        /\ Len(src.bytes) % Width(dtype) = 0) =>
        /\ ret.t = "list"
        /\ Len(ret.v) = Len(src.bytes) \div Width(dtype)
        /\ \A k \in 1..Len(ret.v) : IsReading(dtype, ret.v[k], Slice(k, Width(dtype)))

\* bytes 01 00 02 00 read as i2 give [1, 2]
C3_Witness ==
    /\ pc = "done"
    /\ Encoded
    /\ src.bytes = <<1, 0, 2, 0>>
    /\ dtype = PyStr(<<"i", "2">>)
    /\ ret = PyList(<<PyInt(1), PyInt(2)>>)

\* the payload text is standard, padded base64
WellFormedB64(s) ==
    /\ Len(s) % 4 = 0
    /\ \E p \in 0..2 :
          /\ p <= Len(s)
          /\ \A i \in 1..Len(s) :
                IF i > Len(s) - p THEN s[i] = "=" ELSE s[i] \in B64Chars

(* C9: every payload that is not well-formed base64 (a character outside
   the alphabet, or wrong padding) makes decode_bdata fail with a decoding
   error; none is silently accepted and decoded to a sequence. *)
C9_MalformedPayloadFails ==
    (pc = "done" /\ ~WellFormedB64(bdata.v)) => IsRaise(ret)

(* C10: round trip: packing a sequence of numbers representable in a kind
   little-endian at the kind's width, base64-encoding it and decoding it
   with that kind returns the original sequence. *)
C10_RoundTrip ==
    (pc = "done" /\ src.how = "packed" /\ dtype = src.kind) =>
        ret = PyList(src.values)

\* two 32-bit values, one of them above 2^31, came back
C10_Witness ==
    /\ pc = "done"
    /\ src.how = "packed"
    /\ dtype = src.kind
    /\ src.values = <<PyBig(65535, 65535), PyInt(16909060)>>
    /\ ret = PyList(src.values)

(* ====================================================================== *)
(* Claims about convert_to_serializable                                   *)
(* ====================================================================== *)

KeySeq(o) == [i \in 1..Len(o.v) |-> o.v[i][1]]
KeySet(o) == { o.v[i][1] : i \in 1..Len(o.v) }
\* the mapping carries both buffer keys
BothKeys(o) == {"bdata", "dtype"} \subseteq KeySet(o)

\* the tree holds no numpy array (the claims speak of mappings, lists and scalars)
RECURSIVE NoArray(_)
NoArray(o) ==
    /\ o.t # "ndarray"
    /\ \A i \in 1..Len(Children(o)) : NoArray(Children(o)[i])

(* C4: convert_to_serializable is idempotent: applied to its own result it
   returns that result unchanged. *)
C4_Idempotent ==
    (pc = "again" /\ NoArray(obj)) => out2 = out

(* C5 as stated: a mapping is replaced by its decoded sequence only when its
   key set is exactly {bdata, dtype}; every other mapping, also one with
   bdata, dtype and further keys, is walked and keeps all of its keys. *)
C5_OnlyExactKeySet ==
    (pc = "converted" /\ obj.t = "dict" /\ KeySet(obj) # {"bdata", "dtype"}
        /\ ~IsRaise(out)) =>
        (out.t = "dict" /\ KeySeq(out) = KeySeq(obj))

\* at every mapping of the tree: handed to the decoder exactly when it
\* carries both keys, walked key by key otherwise
RECURSIVE BufferRule(_, _)
BufferRule(i, o) ==
    IF i.t = "dict"
    THEN IF BothKeys(i)
         THEN o = decode_bdata(GetItem(i, "bdata"), GetItem(i, "dtype"))
         ELSE /\ o.t = "dict"
              /\ KeySeq(o) = KeySeq(i)
              /\ \A k \in 1..Len(i.v) : BufferRule(i.v[k][2], o.v[k][2])
    ELSE IF i.t = "list"
    THEN /\ o.t = "list"
         /\ Len(o.v) = Len(i.v)
         /\ \A k \in 1..Len(i.v) : BufferRule(i.v[k], o.v[k])
    ELSE TRUE

(* C5 as amended: a mapping is handed to decode_bdata whenever it carries
   both keys bdata and dtype, whatever further keys it has (they are
   dropped with it); only a mapping lacking one of the two is walked and
   keeps all of its keys. *)
C5_BothKeysDecoded ==
    (pc = "converted") =>
        /\ (obj.t = "dict" /\ BothKeys(obj)) =>
                out = decode_bdata(GetItem(obj, "bdata"), GetItem(obj, "dtype"))
        /\ IsRaise(out) \/ BufferRule(obj, out)

\* a mapping with bdata, dtype and a third key came back as the decoded list
C5_Witness ==
    /\ pc = "converted"
    /\ obj.t = "dict"
    /\ KeySet(obj) = {"bdata", "dtype", "x"}
    /\ out = PyList(<<PyInt(1)>>)

\* what a scalar stands for, whatever type holds it
Meaning(x) ==
    IF isna(x) THEN [m |-> "missing"]
    ELSE CASE x.t \in {"int", "np.int64"} -> [m |-> "integer", v |-> x.v]
           [] x.t \in {"float", "np.float64"} ->
                [m |-> "real", sign |-> x.sign, exp |-> x.exp, frac |-> x.frac]
           [] x.t \in {"bool", "np.bool_"} -> [m |-> "truth", v |-> x.v]
           [] x.t = "str" -> [m |-> "text", v |-> x.v]

\* o has the shape of i wherever i is not a mapping with both buffer keys
RECURSIVE ShapeKept(_, _)
ShapeKept(i, o) ==
    IF i.t = "dict"
    THEN BothKeys(i) \/
         ( /\ o.t = "dict"
           /\ KeySeq(o) = KeySeq(i)
           /\ \A k \in 1..Len(i.v) : ShapeKept(i.v[k][2], o.v[k][2]) )
    ELSE IF i.t = "list"
    THEN /\ o.t = "list"
         /\ Len(o.v) = Len(i.v)
         /\ \A k \in 1..Len(i.v) : ShapeKept(i.v[k], o.v[k])
    ELSE IF i.t = "ndarray" THEN TRUE
    ELSE ~IsContainer(o) /\ o.t # "ndarray" /\ Meaning(o) = Meaning(i)

(* C6: a node lacking one of the two buffer keys is never decoded as a
   buffer and keeps its shape in the result: a mapping gives a mapping with
   the same keys, a list a list of the same length and order, and only the
   representation of the scalars changes. *)
C6_ShapePreserved ==
    (pc = "converted" /\ ~IsRaise(out)) => ShapeKept(obj, out)

\* a mapping with bdata but no dtype, holding a list, came back as a mapping
C6_Witness ==
    /\ pc = "converted"
    /\ obj.t = "dict"
    /\ HasKey(obj, "bdata") /\ ~HasKey(obj, "dtype")
    /\ \E k \in 1..Len(obj.v) : obj.v[k][2].t = "list" /\ Len(obj.v[k][2].v) = 2
    /\ out.t = "dict"

\* only mappings, lists, strings, plain numbers, plain booleans and None,
\* and no mapping with both buffer keys
RECURSIVE Plain(_)
Plain(o) ==
    \/ o.t \in {"str", "int", "float", "bool", "None"}
    \/ /\ o.t = "list"
       /\ \A k \in 1..Len(o.v) : Plain(o.v[k])
    \/ /\ o.t = "dict"
       /\ ~BothKeys(o)
       /\ \A k \in 1..Len(o.v) : Plain(o.v[k][2])

(* C7: whenever convert_to_serializable returns, its result holds only
   mappings, lists, strings, plain numbers, plain booleans and None: no
   numpy wrapper and no mapping with both buffer keys is left in it. *)
C7_OutputPlain ==
    (pc = "converted" /\ ~IsRaise(out)) => Plain(out)

\* a list holding an encoded buffer and a numpy boolean was converted
C7_Witness ==
    /\ pc = "converted"
    /\ obj.t = "list" /\ Len(obj.v) = 2
    /\ obj.v[1].t = "dict" /\ BothKeys(obj.v[1])
    /\ obj.v[2].t = "np.bool_"
    /\ out = PyList(<<PyList(<<PyInt(1)>>), PyBool(TRUE)>>)

(* C8 as stated: convert_to_serializable is total on acyclic trees: whatever
   is stored under bdata and dtype, it returns a value and raises nothing. *)
C8_Total ==
    (pc = "converted") => ~IsRaise(out)

\* the walk reaches a mapping with both keys on which decode_bdata raises
RECURSIVE BadBuffer(_)
BadBuffer(o) ==
    IF o.t = "dict" /\ BothKeys(o)
    THEN IsRaise(decode_bdata(GetItem(o, "bdata"), GetItem(o, "dtype")))
    ELSE \E k \in 1..Len(Children(o)) : BadBuffer(Children(o)[k])

(* C8 as amended: on an acyclic tree convert_to_serializable returns a
   value unless the walk reaches a mapping with both buffer keys on which
   decode_bdata raises; it raises exactly then. *)
C8_RaisesOnlyFromDecoder ==
    (pc = "converted") => (IsRaise(out) <=> BadBuffer(obj))

\* a decoder error inside a list came out of the walk
C8_Witness ==
    /\ pc = "converted"
    /\ obj.t = "list"
    /\ BadBuffer(obj)
    /\ out = Raise("binascii.Error")

\* o holds None wherever i holds a missing value outside a buffer mapping,
\* and what every other scalar of i stands for
RECURSIVE NullsPlaced(_, _)
NullsPlaced(i, o) ==
    IF i.t = "dict"
    THEN BothKeys(i) \/
         ( /\ o.t = "dict"
           /\ KeySeq(o) = KeySeq(i)
           /\ \A k \in 1..Len(i.v) : NullsPlaced(i.v[k][2], o.v[k][2]) )
    ELSE IF i.t = "list"
    THEN /\ o.t = "list"
         /\ Len(o.v) = Len(i.v)
         /\ \A k \in 1..Len(i.v) : NullsPlaced(i.v[k], o.v[k])
    ELSE IF i.t = "ndarray" THEN TRUE
    ELSE IF isna(i) THEN o = PyNone
    ELSE ~isna(o) /\ Meaning(o) = Meaning(i)

(* C11: every leaf that stands for a missing value (NaN or NA, held as a
   plain float or as a numpy scalar), at any depth outside an encoded
   buffer, is None at the same place of the result, and its siblings are
   unchanged. *)
C11_MissingBecomesNone ==
    (pc = "converted" /\ NoArray(obj) /\ ~IsRaise(out)) => NullsPlaced(obj, out)

(* ====================================================================== *)
(* The dashboard, faa_dashboard.py: generate_sample_data, calculate_kpis, *)
(* and main with its two sliders.                                         *)
(*                                                                        *)
(* A table is [t |-> "DataFrame", rows |-> <<...>>], its rows in date    *)
(* order; a row is a record of its columns; the date of a row is its day  *)
(* number, 1 the oldest.  Counts are integers.  Floats that are not counts are held in  *)
(* hundredths, rounded down: avg_delay_minutes 1500 is 15.00 minutes and  *)
(* on_time_percentage 8750 is 87.50 percent.  A float computed by pandas  *)
(* over a window is [nan |-> FALSE, v |-> hundredths], or [nan |-> TRUE]  *)
(* for the mean of no rows.                                               *)
(* ====================================================================== *)

(* ---- bounds ---------------------------------------------------------- *)
\* direct calls are made with every n from 1 to MaxSmallDays, besides the
\* sizes of SomeDays
MaxSmallDays == 4

(* ---- the pseudo-random stream ---------------------------------------- *)
\* np.random.seed(42) fixes one stream for every call; which numbers it
\* holds is left open: each column draws all-lowest, all-highest or values
\* spread over its range, k being the position of the draw in the stream
Patterns == {"low", "high", "ramp"}

\* np.random.randint(low, high): high is excluded
randint(pat, k, low, high) ==
    CASE pat = "low" -> low
      [] pat = "high" -> high - 1
      [] OTHER -> low + ((k * 7919) % (high - low))

\* np.random.uniform(low, high), low and high in hundredths
uniform(pat, k, low, high) ==
    CASE pat = "low" -> low
      [] pat = "high" -> high - 1
      [] OTHER -> low + ((k * 7919) % (high - low))

\* np.random.dirichlet(np.ones(5)): five shares that add up to 1, in tenths
dirichlet(pat, i) ==
    CASE pat = "first" -> <<10, 0, 0, 0, 0>>
      [] pat = "last" -> <<0, 0, 0, 0, 10>>
      [] pat = "even" -> <<2, 2, 2, 2, 2>>
      [] OTHER -> [j \in 1..5 |-> <<1, 2, 3, 4, 0>>[((i + j) % 5) + 1]]

Shares == {"first", "last", "even", "turn"}

\* int(proportions[j] * total_delays)
int_share(tenths, total_delays) == (tenths * total_delays) \div 10

Min(a, b) == IF a <= b THEN a ELSE b
Max(a, b) == IF a >= b THEN a ELSE b

\* faulty variant: the ratio upside down
percent_swapped(a, b) == (b * 10000) \div a

\* (a / b) * 100, in hundredths
percent(a, b) == (a * 10000) \div b

(* ---- generate_sample_data(num_days) ---------------------------------- *)
\* the dict of columns was lost to an exception
Failed(data) == "exc" \in DOMAIN data

\* faulty variant: the lists are created on the second day
put_first_day_is_one(data, i, name, x) ==
    IF Failed(data) THEN data
    ELSE IF i = 1 THEN data @@ (name :> <<x>>)
    ELSE IF name \in DOMAIN data THEN [data EXCEPT ![name] = Append(@, x)]
    ELSE Raise("KeyError")

\* data[name] = [x] on the first day, data[name].append(x) afterwards
put(data, i, name, x) ==
    IF Failed(data) THEN data
    ELSE IF i = 0 THEN data @@ (name :> <<x>>)
    ELSE IF name \in DOMAIN data THEN [data EXCEPT ![name] = Append(@, x)]
    ELSE Raise("KeyError")

\* faulty variant: late_aircraft is a rounded-down share like the other four
loop_body_late_share(i, delayed_flights, s, data) ==
    LET total_delays == delayed_flights[i + 1]
        proportions == dirichlet(s.proportions, i)
        d1 == put(data, i, "weather_delays", int_share(proportions[1], total_delays))
        d2 == put(d1, i, "carrier_delays", int_share(proportions[2], total_delays))
        d3 == put(d2, i, "nas_delays", int_share(proportions[3], total_delays))
        d4 == put(d3, i, "security_delays", int_share(proportions[4], total_delays))
    IN  put(d4, i, "late_aircraft_delays", int_share(proportions[5], total_delays))

\* one pass of the body of "for i in range(num_days)"
loop_body(i, delayed_flights, s, data) ==
    LET total_delays == delayed_flights[i + 1]
        proportions == dirichlet(s.proportions, i)
        weather == int_share(proportions[1], total_delays)
        carrier == int_share(proportions[2], total_delays)
        nas == int_share(proportions[3], total_delays)
        security == int_share(proportions[4], total_delays)
        late_aircraft == total_delays - (weather + carrier + nas + security)
        d1 == put(data, i, "weather_delays", weather)
        d2 == put(d1, i, "carrier_delays", carrier)
        d3 == put(d2, i, "nas_delays", nas)
        d4 == put(d3, i, "security_delays", security)
    IN  put(d4, i, "late_aircraft_delays", late_aircraft)

\* the passes for i = lo, ..., hi - 1 in order: the first half of them, then
\* the second half
RECURSIVE delay_loop(_, _, _, _, _)
delay_loop(lo, hi, delayed_flights, s, data) ==
    IF lo >= hi THEN data
    ELSE IF hi = lo + 1 THEN loop_body(lo, delayed_flights, s, data)
    ELSE LET mid == (lo + hi) \div 2
             half == delay_loop(lo, mid, delayed_flights, s, data)
         IN  IF Failed(half) THEN half
             ELSE delay_loop(mid, hi, delayed_flights, s, half)

Table(rows) == [t |-> "DataFrame", rows |-> rows]

\* pd.DataFrame(data): one row per index, or ValueError when the columns
\* differ in length
DataFrame(data) ==
    LET lens == { Len(data[c]) : c \in DOMAIN data }
    IN  IF Cardinality(lens) > 1 THEN Raise("ValueError")
        ELSE LET n == CHOOSE l \in lens : TRUE
             IN  Table([i \in 1..n |-> [c \in DOMAIN data |-> data[c][i]]])

\* the three derived columns
with_rates(row) ==
    row @@ [ on_time_percentage |-> percent(row.on_time_flights, row.total_flights),
             cancellation_rate |-> percent(row.cancelled_flights, row.total_flights),
             delay_rate |-> percent(row.delayed_flights, row.total_flights) ]

\* delayed_flights = np.minimum(delayed_flights, remaining_flights - 1000)
cap_delayed(delayed, remaining) == Min(delayed, remaining - 1000)

generate_sample_data(n, s) ==
    LET dates == [i \in 1..n |-> i]
        total_flights == [i \in 1..n |-> randint(s.total_flights, i, 40000, 50000)]
        cancelled_flights == [i \in 1..n |-> randint(s.cancelled_flights, n + i, 100, 1000)]
        diverted_flights == [i \in 1..n |-> randint(s.diverted_flights, 2 * n + i, 50, 300)]
        remaining_flights ==
            [i \in 1..n |-> total_flights[i] - cancelled_flights[i] - diverted_flights[i]]
        delayed_flights ==
            [i \in 1..n |-> cap_delayed(randint(s.delayed_flights, 3 * n + i, 5000, 10000),
                                        remaining_flights[i])]
        on_time_flights == [i \in 1..n |-> remaining_flights[i] - delayed_flights[i]]
        data == [ date |-> dates,
                  total_flights |-> total_flights,
                  on_time_flights |-> on_time_flights,
                  delayed_flights |-> delayed_flights,
                  cancelled_flights |-> cancelled_flights,
                  diverted_flights |-> diverted_flights,
                  avg_delay_minutes |->
                      [i \in 1..n |-> uniform(s.avg_delay_minutes, 4 * n + i, 1500, 4500)] ]
        filled == delay_loop(0, n, delayed_flights, s, data)
        frame == IF Failed(filled) THEN filled ELSE DataFrame(filled)
    IN  IF IsRaise(frame) THEN frame
        ELSE Table([i \in 1..Len(frame.rows) |-> with_rates(frame.rows[i])])

(* ---- direct calls of generate_sample_data ---------------------------- *)
\* the sizes the tests and the sliders use, and the edges of the 60-row rule
SomeDays == {10, 30, 59, 60, 61, 90, 180, 365}
TestDays == (1..MaxSmallDays) \cup SomeDays

GenStreams ==
    [ total_flights : Patterns, cancelled_flights : Patterns,
      diverted_flights : Patterns, delayed_flights : Patterns,
      avg_delay_minutes : {"ramp"}, proportions : Shares ]

InitGen ==
    /\ bdata = PyStr(<<>>)
    /\ dtype = NoValue
    /\ src = [how |-> "typed"]
    /\ ret = NoValue
    /\ obj = NoValue
    /\ out = NoValue
    /\ out2 = NoValue
    /\ pc = "idle"
    /\ rng \in GenStreams
    /\ DashIdle

\* df = generate_sample_data(n)
Generate ==
    /\ pc = "idle"
    /\ \E n \in TestDays :
          /\ num_days' = n
          /\ df' = generate_sample_data(n, rng)
    /\ pc' = "generated"
    /\ UNCHANGED <<rng, date_range, df_filtered, kpis, latest_data, previous_data, warned>>
    /\ UNCHANGED cleanvars

NextGen == Generate

SpecGen == InitGen /\ [][NextGen]_vars

(* ---- claims about generate_sample_data ------------------------------- *)
(* C12: in every row of generate_sample_data(n), total_flights is the sum of
   on_time, delayed, cancelled and diverted flights, and delayed_flights is
   the sum of the five delay-type columns, whatever the random draws. *)
C12_RowsAddUp ==
    (pc = "generated") =>
        /\ ~IsRaise(df)
        /\ \A i \in 1..Len(df.rows) :
              LET row == df.rows[i]
              IN  /\ row.total_flights =
                        row.on_time_flights + row.delayed_flights
                        + row.cancelled_flights + row.diverted_flights
                  /\ row.delayed_flights =
                        row.weather_delays + row.carrier_delays + row.nas_delays
                        + row.security_delays + row.late_aircraft_delays

\* a year whose first day drew the most cancellations and diversions and
\* whose second day's shares were rounded down, late_aircraft taking the rest
C12_Witness ==
    /\ pc = "generated"
    /\ Len(df.rows) = 365
    /\ df.rows[1].cancelled_flights = 999
    /\ df.rows[1].diverted_flights = 299
    /\ df.rows[2].weather_delays > 0
    /\ df.rows[2].weather_delays * 10 # df.rows[2].delayed_flights * 2
    /\ df.rows[2].late_aircraft_delays > df.rows[2].weather_delays

(* C13: in every row of generate_sample_data(n), on_time_percentage,
   cancellation_rate and delay_rate lie between 0 and 100 inclusive, and
   total_flights, on_time_flights, delayed_flights and cancelled_flights are
   not negative. *)
C13_RatesAndCountsInRange ==
    (pc = "generated") =>
        /\ ~IsRaise(df)
        /\ \A i \in 1..Len(df.rows) :
              LET row == df.rows[i]
              IN  /\ row.on_time_percentage \in 0..10000
                  /\ row.cancellation_rate \in 0..10000
                  /\ row.delay_rate \in 0..10000
                  /\ row.total_flights >= 0
                  /\ row.on_time_flights >= 0
                  /\ row.delayed_flights >= 0
                  /\ row.cancelled_flights >= 0

\* a day with the fewest flights and the most delays, cancellations and
\* diversions the ranges allow, next to a day with the most flights
C13_Witness ==
    /\ pc = "generated"
    /\ Len(df.rows) = 10
    /\ df.rows[1].total_flights = 40000
    /\ df.rows[1].cancelled_flights = 999
    /\ df.rows[1].diverted_flights = 299
    /\ df.rows[1].delayed_flights = 9999
    /\ df.rows[1].on_time_flights = 28703

DelayColumns ==
    { "weather_delays", "carrier_delays", "nas_delays", "security_delays",
      "late_aircraft_delays" }

(* C15: for every n >= 1, generate_sample_data(n) returns exactly n rows,
   one per day, each with one entry in each of the five delay-type columns. *)
C15_OneRowPerDay ==
    (pc = "generated") =>
        /\ ~IsRaise(df)
        /\ Len(df.rows) = num_days
        /\ \A i \in 1..Len(df.rows) :
              /\ df.rows[i].date = i
              /\ DelayColumns \subseteq DOMAIN df.rows[i]

\* the 365-row table, the largest the tests ask for
C15_Witness ==
    /\ pc = "generated"
    /\ num_days = 365
    /\ ~IsRaise(df)
    /\ Len(df.rows) = num_days
    /\ df.rows[num_days].late_aircraft_delays >= 0

(* ---- pandas on a table ----------------------------------------------- *)
\* the rows lo..hi of a table, none when lo > hi
Rows(d, lo, hi) == Table(SubSeq(d.rows, lo, hi))

\* faulty variant: df.iloc[k:], the rows after the first k
tail_skip(d, k) == Rows(d, Min(k, Len(d.rows)) + 1, Len(d.rows))

\* df.tail(k): the last k rows, all of them when there are fewer
tail(d, k) == Rows(d, Len(d.rows) - Min(k, Len(d.rows)) + 1, Len(d.rows))

\* df.head(k): the first k rows, all of them when there are fewer
head(d, k) == Rows(d, 1, Min(k, Len(d.rows)))

\* df.iloc[a:b] with a and b negative: positions counted from the end
iloc(d, a, b) == Rows(d, Max(Len(d.rows) + a, 0) + 1, Max(Len(d.rows) + b, 0))

\* a float pandas computed, in hundredths; the mean of no rows is NaN
Num(v) == [nan |-> FALSE, v |-> v]
NaNF == [nan |-> TRUE]

\* the sum of column c over the rows lo..hi
RECURSIVE range_sum(_, _, _, _)
range_sum(rows, c, lo, hi) ==
    IF lo > hi THEN 0
    ELSE IF lo = hi THEN rows[lo][c]
    ELSE LET mid == (lo + hi) \div 2
         IN  range_sum(rows, c, lo, mid) + range_sum(rows, c, mid + 1, hi)

\* d[c].sum()
sum(d, c) == range_sum(d.rows, c, 1, Len(d.rows))

\* d[c].mean()
mean(d, c) ==
    IF Len(d.rows) = 0 THEN NaNF ELSE Num(sum(d, c) \div Len(d.rows))

\* a - b on floats
minus(a, b) == IF a.nan \/ b.nan THEN NaNF ELSE Num(a.v - b.v)

(* ---- calculate_kpis(df) ---------------------------------------------- *)
latest_window(d) ==
    IF Len(d.rows) < 60 THEN tail(d, Max(Len(d.rows) \div 2, 1))
    ELSE tail(d, 30)

\* faulty variant: the earlier half rounded up
previous_window_half_up(d) ==
    IF Len(d.rows) < 60 THEN head(d, Max((Len(d.rows) + 1) \div 2, 1))
    ELSE iloc(d, -60, -30)

previous_window(d) ==
    IF Len(d.rows) < 60 THEN head(d, Max(Len(d.rows) \div 2, 1))
    ELSE iloc(d, -60, -30)

\* the six entries of the dict literal
kpis_of_latest(latest) ==
    [ total_flights |-> sum(latest, "total_flights"),
      on_time_percentage |-> mean(latest, "on_time_percentage"),
      avg_delay_minutes |-> mean(latest, "avg_delay_minutes"),
      cancellation_rate |-> mean(latest, "cancellation_rate"),
      total_delayed |-> sum(latest, "delayed_flights"),
      total_cancelled |-> sum(latest, "cancelled_flights") ]

\* faulty variant: the third trend is stored under the second one's key
trends_two_keys(latest, previous) ==
    [ on_time_trend |->
          minus(mean(latest, "on_time_percentage"), mean(previous, "on_time_percentage")),
      delay_trend |->
          minus(mean(latest, "cancellation_rate"), mean(previous, "cancellation_rate")) ]

\* the three entries added after it
trends(latest, previous) ==
    [ on_time_trend |->
          minus(mean(latest, "on_time_percentage"), mean(previous, "on_time_percentage")),
      delay_trend |->
          minus(mean(latest, "avg_delay_minutes"), mean(previous, "avg_delay_minutes")),
      cancellation_trend |->
          minus(mean(latest, "cancellation_rate"), mean(previous, "cancellation_rate")) ]

calculate_kpis(d) ==
    kpis_of_latest(latest_window(d)) @@ trends(latest_window(d), previous_window(d))

(* ---- main ------------------------------------------------------------ *)
\* the values st.sidebar.slider offers: min_value, min_value + step, ...
slider(min_value, max_value, step) ==
    { min_value + step * k : k \in 0..((max_value - min_value) \div step) }

NumDaysValues == slider(30, 365, 30)
DateRangeValues == slider(7, 90, 7)

\* faulty variant: the KPIs are computed from the filtered table
kpi_input_filtered(d, f) == f

\* the table handed to calculate_kpis
kpi_input(d, f) == d

\* @st.cache_data: a call with the argument of the run before returns the
\* table made then, any other call runs the function
cache_data(nd) ==
    IF pc = "main" /\ nd = num_days THEN df ELSE generate_sample_data(nd, rng)

\* one run of the script with the sliders at nd and dr
Main(nd, dr) ==
    /\ num_days' = nd
    /\ date_range' = dr
    /\ df' = cache_data(nd)
    /\ df_filtered' = tail(df', dr)
    /\ kpis' = calculate_kpis(kpi_input(df', df_filtered'))
    /\ latest_data' = latest_window(kpi_input(df', df_filtered'))
    /\ previous_data' = previous_window(kpi_input(df', df_filtered'))
    /\ warned' = ~(Len(df_filtered'.rows) > 0)
    /\ pc' = "main"
    /\ UNCHANGED rng
    /\ UNCHANGED cleanvars

DashStreams ==
    { [ total_flights |-> "ramp", cancelled_flights |-> "ramp",
        diverted_flights |-> "ramp", delayed_flights |-> "ramp",
        avg_delay_minutes |-> "ramp", proportions |-> "turn" ],
      [ total_flights |-> "low", cancelled_flights |-> "high",
        diverted_flights |-> "ramp", delayed_flights |-> "high",
        avg_delay_minutes |-> "ramp", proportions |-> "even" ],
      [ total_flights |-> "ramp", cancelled_flights |-> "low",
        diverted_flights |-> "high", delayed_flights |-> "ramp",
        avg_delay_minutes |-> "high", proportions |-> "last" ] }

InitDash ==
    /\ bdata = PyStr(<<>>)
    /\ dtype = NoValue
    /\ src = [how |-> "typed"]
    /\ ret = NoValue
    /\ obj = NoValue
    /\ out = NoValue
    /\ out2 = NoValue
    /\ pc = "idle"
    /\ rng \in DashStreams
    /\ DashIdle

\* the page is opened: both sliders at their defaults
Open ==
    /\ pc = "idle"
    /\ Main(90, 30)

\* the user moves "Historical Data Range (Days)"
SetNumDays ==
    /\ pc = "main"
    /\ \E v \in NumDaysValues \ {num_days} : Main(v, date_range)

\* the user moves "Analysis Period (Days)"
SetDateRange ==
    /\ pc = "main"
    /\ \E v \in DateRangeValues \ {date_range} : Main(num_days, v)

\* calculate_kpis(generate_sample_data(n)) called directly
CalculateKpis ==
    /\ pc = "idle"
    /\ \E n \in TestDays :
          /\ num_days' = n
          /\ df' = generate_sample_data(n, rng)
    /\ kpis' = calculate_kpis(df')
    /\ latest_data' = latest_window(df')
    /\ previous_data' = previous_window(df')
    /\ pc' = "tested"
    /\ UNCHANGED <<rng, date_range, df_filtered, warned>>
    /\ UNCHANGED cleanvars

NextDash ==
    \/ Open
    \/ SetNumDays
    \/ SetDateRange
    \/ CalculateKpis

SpecDash == InitDash /\ [][NextDash]_vars

(* ---- claims about calculate_kpis and main ---------------------------- *)
NineKeys ==
    { "total_flights", "on_time_percentage", "avg_delay_minutes",
      "cancellation_rate", "total_delayed", "total_cancelled",
      "on_time_trend", "delay_trend", "cancellation_trend" }

(* C14: for a table of any number of rows from 1 up, on either side of the
   60-row rule, calculate_kpis returns a dict with exactly the nine keys
   total_flights, on_time_percentage, avg_delay_minutes, cancellation_rate,
   total_delayed, total_cancelled, on_time_trend, delay_trend and
   cancellation_trend. *)
C14_NineKeys ==
    (pc \in {"tested", "main"}) => DOMAIN kpis = NineKeys

\* the ten-row table of the tests, on the short side of the 60-row rule
C14_Witness ==
    /\ pc = "tested"
    /\ Len(df.rows) = 10
    /\ DOMAIN kpis = NineKeys
    /\ kpis.total_flights > 0
    /\ ~kpis.cancellation_trend.nan

(* C16: for every value of the "Historical Data Range" slider, the KPIs
   shown under "Key Performance Indicators (Last 30 Days)" are computed over
   exactly the last 30 daily rows, and the trends compare those rows with the
   30 rows immediately before them. *)
C16_LastThirtyDays ==
    (pc = "main") =>
        /\ latest_data = tail(df, 30)
        /\ Len(latest_data.rows) = 30
        /\ previous_data = iloc(df, -60, -30)
        /\ Len(previous_data.rows) = 30
        /\ kpis.total_flights = sum(tail(df, 30), "total_flights")

Dates(d) == { d.rows[i].date : i \in 1..Len(d.rows) }

(* C17: for a table of two rows or more, the latest and the previous window
   have the same number of rows (30 each from 60 rows up, half the rows
   rounded down otherwise), share no row, and every previous row is earlier
   than every latest row; for a one-row table both windows are that row and
   the three trends are 0. *)
C17_WindowsApart ==
    (pc \in {"tested", "main"}) =>
        LET n == Len(df.rows)
            size == IF n >= 60 THEN 30 ELSE n \div 2
        IN  /\ Dates(latest_data) \subseteq Dates(df)
            /\ Dates(previous_data) \subseteq Dates(df)
            /\ (n >= 2) =>
                  /\ Len(latest_data.rows) = size
                  /\ Len(previous_data.rows) = size
                  /\ Cardinality(Dates(latest_data)) = size
                  /\ Cardinality(Dates(previous_data)) = size
                  /\ Dates(latest_data) \cap Dates(previous_data) = {}
                  /\ \A p \in Dates(previous_data) : \A l \in Dates(latest_data) : p < l
            /\ (n = 1) =>
                  /\ latest_data = df
                  /\ previous_data = df
                  /\ kpis.on_time_trend = Num(0)
                  /\ kpis.delay_trend = Num(0)
                  /\ kpis.cancellation_trend = Num(0)

\* a three-row table: the windows are the first and the last row, the
\* middle row is in neither, and a trend is not 0
C17_Witness ==
    /\ pc = "tested"
    /\ Len(df.rows) = 3
    /\ Dates(previous_data) = {1}
    /\ Dates(latest_data) = {3}
    /\ kpis.delay_trend # Num(0)

\* the one-row table: both windows are its row and the trends are 0
C17_WitnessOneRow ==
    /\ pc = "tested"
    /\ Len(df.rows) = 1
    /\ latest_data = previous_data
    /\ kpis.delay_trend = Num(0)

(* C18: in main the nine values returned by calculate_kpis depend on the
   "Historical Data Range" slider alone: moving "Analysis Period" with
   num_days fixed leaves the table and every KPI and trend as they were. *)
C18_KpisIgnoreAnalysisPeriod ==
    [][ (pc = "main" /\ pc' = "main" /\ num_days' = num_days) =>
            (df' = df /\ kpis' = kpis /\ latest_data' = latest_data
             /\ previous_data' = previous_data) ]_vars

\* "Analysis Period" was moved away from its default of 30 to 7, which
\* changed the filtered table, with 90 days of history
C18_Witness ==
    /\ pc = "main"
    /\ num_days = 90
    /\ date_range = 7
    /\ Len(df_filtered.rows) = 7
    /\ Len(latest_data.rows) = 30

(* C19: for every combination of slider values, df_filtered has exactly
   min(date_range, num_days) rows and is never empty, so the warning
   "No data available for the selected date range." is never shown. *)
C19_FilteredNeverEmpty ==
    (pc = "main") =>
        /\ Len(df_filtered.rows) = Min(date_range, num_days)
        /\ Len(df_filtered.rows) > 0
        /\ ~warned

\* the shortest history with the longest analysis period: the filtered
\* table is the whole table
C19_Witness ==
    /\ pc = "main"
    /\ num_days = 30
    /\ date_range = 84
    /\ Len(df_filtered.rows) = 30
    /\ df_filtered = df
====
